---- MODULE Spec2Model ----
(***************************************************************************)
(* Model of the TCGA slide downloader.  Two scripts are modelled:          *)
(*   "by_type"  src/download_tcga_slides_by_type_and_projects.py           *)
(*   "gdc_wsi"  src/gdc-WSI-downloader.py                                  *)
(* A FileRecord (one hit of the manifest) is a function from the keys that *)
(* are present in the JSON object to their values, so that dict.get(k, d)  *)
(* is Get(file, k, d).  Python's None is the value None.                   *)
(*                                                                         *)
(* Three specifications:                                                   *)
(*   GroupSpec     group_by_patient and generate_project_summary_csv on    *)
(*                 every list of up to MaxFiles manifest hits              *)
(*   DownloadSpec  up to MaxCalls calls of download_file on one path, the  *)
(*                 environment choosing what each execution meets          *)
(*   Spec          a run of download_tcga_slides                           *)
(***************************************************************************)
EXTENDS Naturals, Integers, Sequences, FiniteSets, TLC

VARIABLES
    script,          \* which of the two scripts runs
    g_files,         \* GroupSpec: the files handed to group_by_patient
    g_type,          \* GroupSpec: its download_type argument
    g_pids,          \* GroupSpec: its patient_ids argument
    g_pc,            \* GroupSpec: "input" | "grouped" | "summarised" | "summary_raised"
    g_out,           \* GroupSpec: what group_by_patient returned (or raised)
    g_sum,           \* GroupSpec: what generate_project_summary_csv returned
    d_disk,          \* DownloadSpec: the content at output_path, or Absent
    d_calls,         \* DownloadSpec: the number of download_file calls made
    d_last,          \* DownloadSpec: the record of the last download_file call
    d_prev,          \* DownloadSpec: the call before it, in short
    arg_download_type,   \* run: the --download-type argument
    arg_projects,        \* run: the --projects argument
    arg_patient_ids,     \* run: the --patient-ids argument
    pc,              \* run: where download_tcga_slides stands
    error,           \* run: the exception that ended download_tcga_slides, if any
    net,             \* run: the GDC endpoints requested so far
    project_list,    \* run: the resolved project list
    patient_id_list, \* run: the resolved patient allow-list
    pidx,            \* run: index of the current project in project_list
    cur_files,       \* run: the hits of the current project's manifest
    cur_patient_slides,  \* run: the current project's PatientGroup
    kidx,            \* run: index of the current patient in patient_slides
    fidx,            \* run: index of the current file of the current patient
    slides_dir,            \* run: the slide files on disk, by path
    dl_log,          \* run: the download_file calls of the current project
    processed,       \* run: the projects gone through, each with how it ended
    project_summaries, \* run: the list of ProjectSummaries
    aggregate        \* run: the all-projects summary CSV

gvars == <<g_files, g_type, g_pids, g_pc, g_out, g_sum>>
dvars == <<d_disk, d_calls, d_last, d_prev>>
rvars == <<arg_download_type, arg_projects, arg_patient_ids, pc, error, net, project_list,
           patient_id_list, pidx, cur_files, cur_patient_slides, kidx, fidx,
           slides_dir, dl_log, processed, project_summaries, aggregate>>
vars == <<script, gvars, dvars, rvars>>

Scripts == {"by_type", "gdc_wsi"}

(* ------------------------------ bounds -------------------------------- *)
MaxFiles == 3
MaxCalls == 2

(* ------------------------- program constants -------------------------- *)
\* stop=stop_after_attempt(3)
MaxAttempts == 3

(* --------------------------- Python values ---------------------------- *)
None == "<None>"
EmptyDict == <<>>

Get(d, k, default) == IF k \in DOMAIN d THEN d[k] ELSE default

\* Python truthiness of a str-or-None value: None and "" are falsy.
Truthy(v) == v # None /\ v # ""

\* x or y
PyOr(x, y) == IF Truthy(x) THEN x ELSE y

\* A list-or-None argument: [isNone |-> TRUE] is None, else list is the list.
NoList == [isNone |-> TRUE, list |-> <<>>]
AList(s) == [isNone |-> FALSE, list |-> s]
ListTruthy(p) == ~p.isNone /\ Len(p.list) > 0
InList(x, p) == \E i \in 1..Len(p.list) : p.list[i] = x

Range(s) == {s[i] : i \in 1..Len(s)}

(* ----------------------- the patient_slides dict ---------------------- *)
\* A defaultdict(list): keys in insertion order, slides[k] the list under k.
\* raised is the exception that ended the call, "" when it returned.
EmptyGroup == [raised |-> "", keys |-> <<>>, slides |-> <<>>]
RaisedGroup(e) == [raised |-> e, keys |-> <<>>, slides |-> <<>>]

\* patient_slides[identifier].append(file)
AppendSlide(ps, identifier, file) ==
    IF identifier \in Range(ps.keys)
    THEN [ps EXCEPT !.slides = [k \in DOMAIN ps.slides |->
              IF k = identifier THEN Append(ps.slides[k], file) ELSE ps.slides[k]]]
    ELSE [ps EXCEPT !.keys = Append(ps.keys, identifier),
                    !.slides = [k \in DOMAIN ps.slides \cup {identifier} |->
              IF k = identifier THEN <<file>> ELSE ps.slides[k]]]

(* --------------------------- group_by_patient ------------------------- *)
\* Mutant of TypeSkips: the "diagnostic" test compares with "" (the default of
\* file.get) instead of "Diagnostic Slide", and "tissue" lets unlabeled hits in.
TypeSkipsLoose(download_type, experimental_strategy) ==
    \/ download_type = "tissue" /\ experimental_strategy \notin {"Tissue Slide", ""}
    \/ download_type = "diagnostic" /\ experimental_strategy = ""

\* The slide-type test of the loop: TRUE when the record is skipped.
TypeSkips(download_type, experimental_strategy) ==
    \/ download_type = "tissue" /\ experimental_strategy # "Tissue Slide"
    \/ download_type = "diagnostic" /\ experimental_strategy # "Diagnostic Slide"

\* if patient_ids and identifier not in patient_ids: continue
AllowSkips(patient_ids, identifier) ==
    ListTruthy(patient_ids) /\ ~InList(identifier, patient_ids)

RECURSIVE group_loop(_, _, _, _, _)
group_loop(files, i, download_type, patient_ids, patient_slides) ==
    IF i > Len(files) THEN patient_slides
    ELSE LET file == files[i]
             experimental_strategy == Get(file, "experimental_strategy", "")
         IN  IF TypeSkips(download_type, experimental_strategy)
             THEN group_loop(files, i + 1, download_type, patient_ids, patient_slides)
             ELSE LET case_id == Get(file, "case_id", None)
                      cases == Get(file, "cases", <<EmptyDict>>)
                  IN  IF Len(cases) = 0 THEN RaisedGroup("IndexError")
                      ELSE LET submitter_id == Get(cases[1], "submitter_id", "Unknown")
                               identifier == PyOr(case_id, submitter_id)
                           IN  IF AllowSkips(patient_ids, identifier)
                               THEN group_loop(files, i + 1, download_type,
                                               patient_ids, patient_slides)
                               ELSE group_loop(files, i + 1, download_type, patient_ids,
                                               AppendSlide(patient_slides, identifier, file))

group_by_patient(files, download_type, patient_ids) ==
    group_loop(files, 1, download_type, patient_ids, EmptyGroup)

\* gdc-WSI-downloader.py: the same loop without the patient_ids parameter.
RECURSIVE gdc_group_loop(_, _, _, _)
gdc_group_loop(files, i, download_type, patient_slides) ==
    IF i > Len(files) THEN patient_slides
    ELSE LET file == files[i]
             experimental_strategy == Get(file, "experimental_strategy", "")
         IN  IF TypeSkips(download_type, experimental_strategy)
             THEN gdc_group_loop(files, i + 1, download_type, patient_slides)
             ELSE LET case_id == Get(file, "case_id", None)
                      cases == Get(file, "cases", <<EmptyDict>>)
                  IN  IF Len(cases) = 0 THEN RaisedGroup("IndexError")
                      ELSE LET submitter_id == Get(cases[1], "submitter_id", "Unknown")
                               identifier == PyOr(case_id, submitter_id)
                           IN  gdc_group_loop(files, i + 1, download_type,
                                              AppendSlide(patient_slides, identifier, file))

gdc_group_by_patient(files, download_type) ==
    gdc_group_loop(files, 1, download_type, EmptyGroup)

\* The call each script makes.
Group(s, files, download_type, patient_ids) ==
    IF s = "by_type" THEN group_by_patient(files, download_type, patient_ids)
    ELSE gdc_group_by_patient(files, download_type)

(* --------------------- generate_project_summary_csv ------------------- *)
RECURSIVE SumSeq(_)
SumSeq(s) == IF s = <<>> THEN 0 ELSE Head(s) + SumSeq(Tail(s))

\* The files of all patients, in the order patient_slides.values() yields them.
RECURSIVE AllSlides(_, _)
AllSlides(ps, k) ==
    IF k > Len(ps.keys) THEN <<>>
    ELSE ps.slides[ps.keys[k]] \o AllSlides(ps, k + 1)

\* A variant that reads a record without experimental_strategy as a tissue slide.
CountStrategyDefaultTissue(slides, strategy) ==
    Cardinality({i \in 1..Len(slides) :
                    Get(slides[i], "experimental_strategy", "Tissue Slide") = strategy})

CountStrategy(slides, strategy) ==
    Cardinality({i \in 1..Len(slides) :
                    Get(slides[i], "experimental_strategy", None) = strategy})

\* 1024 * 1024
BytesPerMb == 1048576

\* f"{total_size_bytes / (1024 * 1024):.2f}" as a number of hundredths of a
\* megabyte.  The quotient by a power of two is an exact float, and the
\* format rounds it to the nearest hundredth, ties to the even one.
Format2f(total_size_bytes) ==
    LET q == (total_size_bytes * 100) \div BytesPerMb
        r == (total_size_bytes * 100) % BytesPerMb
    IN  IF 2 * r > BytesPerMb \/ (2 * r = BytesPerMb /\ q % 2 = 1) THEN q + 1 ELSE q

\* sorted(patient_slides.items()) compares the keys of two items: with two or
\* more items, one of them under the key None, "<" between None and a str
\* raises TypeError.
SortRaises(keys) == Len(keys) >= 2 /\ None \in Range(keys)

\* The exception that ended generate_project_summary_csv, in place of its result.
RaisedSummary(e) == [raised |-> e]

generate_project_summary_csv(project_id, patient_slides) ==
    LET slides == AllSlides(patient_slides, 1)
        total_files == SumSeq([k \in 1..Len(patient_slides.keys) |->
                                  Len(patient_slides.slides[patient_slides.keys[k]])])
        total_size_bytes == SumSeq([i \in 1..Len(slides) |->
                                       Get(slides[i], "file_size", 0)])
    IN  IF SortRaises(patient_slides.keys) THEN RaisedSummary("TypeError")
        ELSE
        [raised |-> "",
         project |-> project_id,
         total_patients |-> Len(patient_slides.keys),
         total_slides |-> total_files,
         tissue_slides |-> CountStrategy(slides, "Tissue Slide"),
         diagnostic_slides |-> CountStrategy(slides, "Diagnostic Slide"),
         total_size_bytes |-> total_size_bytes,
         total_size_mb |-> [num |-> total_size_bytes, den |-> BytesPerMb],
         total_size_2f |-> Format2f(total_size_bytes),
         file_formats |-> {Get(slides[i], "data_format", "Unknown") : i \in 1..Len(slides)}]

(* ------------------------------ download_file ------------------------- *)
\* The file at output_path: Absent, or its content.
Absent == "<absent>"
GoodBytes == "slide-bytes"
CorruptBytes == "other-bytes"
PartialBytes == "slide-"
Contents == {GoodBytes, CorruptBytes, PartialBytes}

\* hashlib.md5(content).hexdigest(): distinct contents have distinct digests.
Md5(content) == <<"md5", content>>

\* The md5sum the manifest gives for the file.
Md5sum == Md5(GoodBytes)

\* What the environment does to one execution of download_file's body:
\*   mkdir_oserror     Path(patient_dir).mkdir raises OSError
\*   read_oserror      open(output_path, "rb") or f.read() raises OSError
\*   connection_error  requests.get raises ConnectionError / Timeout
\*   http_error        raise_for_status raises HTTPError
\*   open_oserror      open(output_path, "wb") raises OSError
\*   stream_broken     the body breaks off after some bytes (ChunkedEncodingError)
\*   write_oserror     f.write raises OSError after some bytes
\*   serve_good / serve_corrupt   the whole body arrives: GoodBytes / CorruptBytes
Envs == {"mkdir_oserror", "read_oserror", "connection_error", "http_error", "open_oserror",
         "stream_broken", "write_oserror", "serve_good", "serve_corrupt"}

Served(env) == IF env = "serve_corrupt" THEN CorruptBytes ELSE GoodBytes

\* One execution of the body; requested: whether requests.get was called.
Ended(env, before, stage, outcome, requested, after) ==
    [env |-> env, before |-> before, stage |-> stage, outcome |-> outcome,
     requested |-> requested, after |-> after]

\* Mutant of SkipsDownload: an existing file is kept without the checksum test.
SkipsIfExists(disk, md5sum) == disk # Absent

\* if os.path.exists(output_path): ... if computed_md5 == md5sum: return
SkipsDownload(disk, md5sum) == disk # Absent /\ Md5(disk) = md5sum

\* download_file of download_tcga_slides_by_type_and_projects.py (stream=True)
download_file(disk, md5sum, env) ==
    IF env = "mkdir_oserror"
    THEN Ended(env, disk, "mkdir", "OSError", FALSE, disk)
    ELSE IF env = "read_oserror" /\ disk # Absent
    THEN Ended(env, disk, "read", "OSError", FALSE, disk)
    ELSE IF SkipsDownload(disk, md5sum)
    THEN Ended(env, disk, "check", "skipped", FALSE, disk)
    ELSE IF env = "connection_error"
    THEN Ended(env, disk, "get", "RequestException", TRUE, disk)
    ELSE IF env = "http_error"
    THEN Ended(env, disk, "raise_for_status", "RequestException", TRUE, disk)
    ELSE IF env = "open_oserror"
    THEN Ended(env, disk, "open", "OSError", TRUE, disk)
    ELSE IF env = "stream_broken"
    THEN Ended(env, disk, "iter_content", "RequestException", TRUE, PartialBytes)
    ELSE IF env = "write_oserror"
    THEN Ended(env, disk, "write", "OSError", TRUE, PartialBytes)
    ELSE Ended(env, disk, "done", "downloaded", TRUE, Served(env))

\* download_file of gdc-WSI-downloader.py: requests.get reads the whole body,
\* so a body that breaks off raises inside requests.get, before open().
gdc_download_file(disk, md5sum, env) ==
    IF env = "mkdir_oserror"
    THEN Ended(env, disk, "mkdir", "OSError", FALSE, disk)
    ELSE IF env = "read_oserror" /\ disk # Absent
    THEN Ended(env, disk, "read", "OSError", FALSE, disk)
    ELSE IF SkipsDownload(disk, md5sum)
    THEN Ended(env, disk, "check", "skipped", FALSE, disk)
    ELSE IF env \in {"connection_error", "stream_broken"}
    THEN Ended(env, disk, "get", "RequestException", TRUE, disk)
    ELSE IF env = "http_error"
    THEN Ended(env, disk, "raise_for_status", "RequestException", TRUE, disk)
    ELSE IF env = "open_oserror"
    THEN Ended(env, disk, "open", "OSError", TRUE, disk)
    ELSE IF env = "write_oserror"
    THEN Ended(env, disk, "write", "OSError", TRUE, PartialBytes)
    ELSE Ended(env, disk, "done", "downloaded", TRUE, Served(env))

\* Mutant of Retryable: retry_if_exception_type(Exception)
RetryableAny(outcome) == outcome \in {"RequestException", "OSError"}

\* retry=retry_if_exception_type((requests.exceptions.RequestException,))
Retryable(outcome) == outcome = "RequestException"

\* The @retry decorator: run the body; after a retryable exception run it again
\* unless stop_after_attempt(3) says stop, and then raise RetryError.
\* envs[n] is what the environment does to the n-th execution.
RECURSIVE retry_loop(_, _, _, _, _)
retry_loop(disk, md5sum, envs, n, trace) ==
    LET r == download_file(disk, md5sum, envs[n])
        t == Append(trace, r)
    IN  IF Retryable(r.outcome)
        THEN IF n >= MaxAttempts
             THEN [outcome |-> "RetryError", disk |-> r.after, trace |-> t]
             ELSE retry_loop(r.after, md5sum, envs, n + 1, t)
        ELSE [outcome |-> r.outcome, disk |-> r.after, trace |-> t]

\* A call of download_file as each script's caller sees it.
Download(s, disk, md5sum, envs) ==
    IF s = "by_type" THEN retry_loop(disk, md5sum, envs, 1, <<>>)
    ELSE LET r == gdc_download_file(disk, md5sum, envs[1])
         IN  [outcome |-> r.outcome, disk |-> r.after, trace |-> <<r>>]

Succeeded(call) == call.outcome \in {"skipped", "downloaded"}

(* ------------------- the state of a specification at rest ------------- *)
NoError == [type |-> "", at |-> ""]
NoArg == [kind |-> "none", ids |-> <<>>]
NotWritten == [written |-> 0, rows |-> <<>>]

GroupIdle ==
    /\ g_files = <<>> /\ g_type = "both" /\ g_pids = NoList
    /\ g_pc = "input" /\ g_out = EmptyGroup /\ g_sum = <<>>

RunIdle ==
    /\ arg_download_type = "both" /\ arg_projects = NoArg /\ arg_patient_ids = NoArg
    /\ pc = "idle" /\ error = NoError /\ net = {} /\ project_list = <<>>
    /\ patient_id_list = NoList /\ pidx = 0 /\ cur_patient_slides = EmptyGroup
    /\ kidx = 0 /\ fidx = 0 /\ slides_dir = <<>> /\ dl_log = <<>> /\ processed = <<>>
    /\ project_summaries = <<>> /\ aggregate = NotWritten /\ cur_files = <<>>

(* ----------------------------- DownloadSpec --------------------------- *)
NoCall == [outcome |-> "", disk |-> Absent, trace |-> <<>>]

DownloadIdle == d_disk = Absent /\ d_calls = 0 /\ d_last = NoCall /\ d_prev = <<>>

DownloadInit ==
    /\ script \in Scripts
    /\ d_disk \in {Absent} \cup Contents
    /\ d_calls = 0
    /\ d_last = NoCall
    /\ d_prev = <<>>
    /\ GroupIdle
    /\ RunIdle

\* One call of download_file on the file as the previous call (or run) left it.
CallDownload ==
    /\ d_calls < MaxCalls
    /\ \E envs \in [1..MaxAttempts -> Envs] :
          d_last' = Download(script, d_disk, Md5sum, envs)
    /\ d_prev' = IF d_calls = 0 THEN <<>>
                 ELSE [outcome |-> d_last.outcome, before |-> d_last.trace[1].before,
                       executions |-> Len(d_last.trace)]
    /\ d_disk' = d_last'.disk
    /\ d_calls' = d_calls + 1
    /\ UNCHANGED <<script, gvars, rvars>>

(* ------------------------- GroupSpec: the inputs ---------------------- *)
\* Manifest hits without their file_id; the file_id is the position.
Templates ==
    { ("experimental_strategy" :> "Tissue Slide") @@ ("case_id" :> "P1")
          @@ ("file_size" :> 2097152) @@ ("data_format" :> "SVS"),
      ("experimental_strategy" :> "Diagnostic Slide") @@ ("case_id" :> "P1")
          @@ ("cases" :> <<("submitter_id" :> "S1")>>) @@ ("file_size" :> 3145728)
          @@ ("data_format" :> "SVS"),
      ("experimental_strategy" :> "Tissue Slide") @@ ("case_id" :> "P2")
          @@ ("cases" :> <<("submitter_id" :> "S2")>>) @@ ("file_size" :> 5243),
      ("experimental_strategy" :> "Diagnostic Slide")
          @@ ("cases" :> <<("submitter_id" :> "S2")>>) @@ ("file_size" :> 15729)
          @@ ("data_format" :> "TIFF"),
      ("experimental_strategy" :> "WXS") @@ ("case_id" :> "P2") @@ ("file_size" :> 1),
      ("file_size" :> 5242) @@ ("data_format" :> "SVS"),
      ("experimental_strategy" :> "Tissue Slide") @@ ("case_id" :> "")
          @@ ("cases" :> <<EmptyDict>>),
      ("experimental_strategy" :> "Tissue Slide")
          @@ ("cases" :> <<("submitter_id" :> None)>>),
      ("experimental_strategy" :> "Diagnostic Slide") @@ ("case_id" :> "P1")
          @@ ("cases" :> <<>>) @@ ("file_size" :> 1) }

WithIds(ts) == [i \in 1..Len(ts) |-> ("file_id" :> i) @@ ts[i]]

FileLists == UNION {{WithIds(ts) : ts \in [1..n -> Templates]} : n \in 0..MaxFiles}

GroupTypes == {"tissue", "diagnostic", "both"}

AllowLists == {NoList, AList(<<>>), AList(<<"P1">>), AList(<<"S2", "Unknown">>)}

GroupInit ==
    /\ script \in Scripts
    /\ g_files \in FileLists
    /\ g_type \in GroupTypes
    /\ g_pids \in (IF script = "by_type" THEN AllowLists ELSE {NoList})
    /\ g_pc = "input"
    /\ g_out = EmptyGroup
    /\ g_sum = <<>>
    /\ DownloadIdle
    /\ RunIdle

CallGroup ==
    /\ g_pc = "input"
    /\ g_out' = Group(script, g_files, g_type, g_pids)
    /\ g_pc' = "grouped"
    /\ UNCHANGED <<script, g_files, g_type, g_pids, g_sum, dvars, rvars>>

CallSummary ==
    /\ g_pc = "grouped"
    /\ g_out.raised = ""
    /\ g_sum' = generate_project_summary_csv("TCGA-A", g_out)
    /\ g_pc' = IF g_sum'.raised = "" THEN "summarised" ELSE "summary_raised"
    /\ UNCHANGED <<script, g_files, g_type, g_pids, g_out, dvars, rvars>>

GroupNext == CallGroup \/ CallSummary

GroupSpec == GroupInit /\ [][GroupNext]_vars

DownloadNext == CallDownload

DownloadSpec == DownloadInit /\ [][DownloadNext]_vars

(* --------------------------- download_tcga_slides --------------------- *)
\* The projects the GDC catalog lists, and ALL_PROJECTS of gdc-WSI-downloader.py
\* (its first two entries).
ALL_PROJECTS == <<"TCGA-BRCA", "TCGA-LUAD", "TCGA-LUSC", "TCGA-OV", "TCGA-GBM",
                  "TCGA-UCEC", "TCGA-COAD", "TCGA-PRAD", "TCGA-THCA", "TCGA-HNSC",
                  "TCGA-LIHC">>

\* The project ids the /projects endpoint answers get_all_projects with.
ApiProjects == <<"TCGA-BRCA", "TCGA-LUAD">>

\* A manifest hit with every field the run reads.
Hit(id, name, strategy, ident) ==
    ("file_id" :> id) @@ ("file_name" :> name) @@ ("md5sum" :> Md5sum)
        @@ ("experimental_strategy" :> strategy) @@ ("file_size" :> 1)
        @@ ("data_format" :> "SVS") @@ ident

\* The manifests the catalog may answer with, per project.
Manifests(project_id) ==
    IF project_id = "TCGA-BRCA"
    THEN { << Hit("f1", "a.svs", "Tissue Slide", "case_id" :> "P1"),
              Hit("f2", "b.svs", "Diagnostic Slide", "case_id" :> "P1"),
              Hit("f3", "c.svs", "Tissue Slide",
                  "cases" :> <<("submitter_id" :> "S2")>>) >>,
           << Hit("f4", "d.svs", "Diagnostic Slide",
                  ("case_id" :> "P1") @@ ("cases" :> <<>>)) >> }
    ELSE IF project_id = "TCGA-LUAD"
    THEN { << Hit("f5", "e.svs", "Tissue Slide", "case_id" :> "P2"),
              Hit("f6", "g.svs", "Tissue Slide", "case_id" :> "P2") >>,
           << Hit("f5", "e.svs", "Tissue Slide", "case_id" :> "P2"),
              Hit("f7", "h.svs", "Tissue Slide",
                  "cases" :> <<("submitter_id" :> None)>>) >> }
    ELSE { << Hit("f8", "i.svs", "Tissue Slide", "case_id" :> "P3") >> }

\* The arguments: a comma-separated list argument is the list of its stripped
\* parts; a .csv patient-ids argument is the file's state and "Patient ID" column.
AllProjects == [kind |-> "all", ids |-> <<>>]
ProjectIds(ids) == [kind |-> "list", ids |-> ids]
InlineIds(ids) == [kind |-> "inline", ids |-> ids]
CsvIds(ids) == [kind |-> "csv", ids |-> ids]
CsvNoColumn == [kind |-> "csv_no_column", ids |-> <<>>]
CsvUnreadable == [kind |-> "csv_unreadable", ids |-> <<>>]

DownloadTypes == {"tissue", "diagnostic", "both", "none", "slides"}
ProjectArgs == {AllProjects, ProjectIds(<<"TCGA-BRCA">>), ProjectIds(<<"TCGA-OV">>),
                ProjectIds(<<"TCGA-LUAD", "TCGA-XXXX">>)}
PatientArgs == {NoArg, InlineIds(<<"P1">>), CsvIds(<<"P1", "S2">>), CsvIds(<<>>),
                CsvNoColumn, CsvUnreadable}

\* What the environment does to the three executions of one download_file call.
RunEnvs == { [n \in 1..MaxAttempts |-> "serve_good"],
             [n \in 1..MaxAttempts |-> "connection_error"],
             [n \in 1..MaxAttempts |-> "write_oserror"] }

DiskGet(d, path) == IF path \in DOMAIN d THEN d[path] ELSE Absent
DiskPut(d, path, content) ==
    IF content = Absent THEN d
    ELSE [q \in DOMAIN d \cup {path} |-> IF q = path THEN content ELSE d[q]]

Init ==
    /\ script \in Scripts
    /\ arg_download_type \in DownloadTypes
    /\ arg_projects \in ProjectArgs
    /\ arg_patient_ids \in (IF script = "by_type" THEN PatientArgs ELSE {NoArg})
    /\ pc = "validate_type"
    /\ error = NoError
    /\ net = {}
    /\ project_list = <<>>
    /\ patient_id_list = NoList
    /\ pidx = 0 /\ kidx = 0 /\ fidx = 0
    /\ cur_files = <<>>
    /\ cur_patient_slides = EmptyGroup
    /\ slides_dir \in {<<>>, <<"TCGA-BRCA", "P1", "a.svs">> :> GoodBytes}
    /\ dl_log = <<>>
    /\ processed = <<>>
    /\ project_summaries = <<>>
    /\ aggregate = NotWritten
    /\ GroupIdle
    /\ DownloadIdle

Raise(type, at) == pc' = "raised" /\ error' = [type |-> type, at |-> at]

\* if download_type not in [...]: raise ValueError
ValidateType ==
    /\ pc = "validate_type"
    /\ IF arg_download_type \notin {"tissue", "diagnostic", "both", "none"}
       THEN Raise("ValueError", "download_type")
       ELSE /\ pc' = IF script = "by_type" THEN "get_all_projects" ELSE "resolve_projects"
            /\ UNCHANGED error
    /\ UNCHANGED <<cur_files, script, gvars, dvars, arg_download_type, arg_projects,
                   arg_patient_ids, net, project_list, patient_id_list, pidx,
                   cur_patient_slides, kidx, fidx, slides_dir, dl_log, processed,
                   project_summaries, aggregate>>

\* all_projects = get_all_projects(): one request to /projects; a failure is
\* logged and raised again.
get_all_projects ==
    /\ pc = "get_all_projects"
    /\ net' = net \cup {"projects"}
    /\ \/ pc' = "resolve_projects" /\ UNCHANGED error
       \/ Raise("RequestException", "get_all_projects")
    /\ UNCHANGED <<cur_files, script, gvars, dvars, arg_download_type, arg_projects,
                   arg_patient_ids, project_list, patient_id_list, pidx,
                   cur_patient_slides, kidx, fidx, slides_dir, dl_log, processed,
                   project_summaries, aggregate>>

\* project_list: all projects, or the listed ones if all of them are known.
ResolveProjects ==
    /\ pc = "resolve_projects"
    /\ LET all_projects == IF script = "by_type" THEN ApiProjects ELSE ALL_PROJECTS
           invalid_projects ==
               {i \in 1..Len(arg_projects.ids) :
                   arg_projects.ids[i] \notin Range(all_projects)}
       IN  IF arg_projects.kind = "all"
           THEN /\ project_list' = all_projects
                /\ pc' = IF script = "by_type" THEN "resolve_patient_ids" ELSE "project"
                /\ UNCHANGED error
           ELSE IF invalid_projects # {}
                THEN Raise("ValueError", "projects") /\ UNCHANGED project_list
                ELSE /\ project_list' = arg_projects.ids
                     /\ pc' = IF script = "by_type" THEN "resolve_patient_ids"
                              ELSE "project"
                     /\ UNCHANGED error
    /\ pidx' = 1
    /\ UNCHANGED <<cur_files, script, gvars, dvars, arg_download_type, arg_projects,
                   arg_patient_ids, net, patient_id_list,
                   cur_patient_slides, kidx, fidx, slides_dir, dl_log, processed,
                   project_summaries, aggregate>>

\* patient_id_list: None, the "Patient ID" column of the CSV file, or the
\* comma-separated ids; a CSV file that cannot be read or has no such column
\* raises ValueError.
ResolvePatientIds ==
    /\ pc = "resolve_patient_ids"
    /\ IF arg_patient_ids.kind = "none"
       THEN patient_id_list' = NoList /\ pc' = "project" /\ UNCHANGED error
       ELSE IF arg_patient_ids.kind \in {"csv_no_column", "csv_unreadable"}
       THEN Raise("ValueError", "patient_ids") /\ UNCHANGED patient_id_list
       ELSE /\ patient_id_list' = AList(arg_patient_ids.ids)
            /\ pc' = "project"
            /\ UNCHANGED error
    /\ UNCHANGED <<cur_files, script, gvars, dvars, arg_download_type, arg_projects,
                   arg_patient_ids, net, project_list, pidx,
                   cur_patient_slides, kidx, fidx, slides_dir, dl_log, processed,
                   project_summaries, aggregate>>

\* An exception inside the loop body of a project.  by_type: the body is in
\* try/except Exception, which logs it and goes on with the next project;
\* gdc_wsi: nothing catches it and it ends download_tcga_slides.
ProjectFails(type, at) ==
    IF script = "by_type"
    THEN /\ processed' = Append(processed, [project |-> project_list[pidx],
                                            status |-> "failed", at |-> at])
         /\ pidx' = pidx + 1
         /\ pc' = "project"
         /\ UNCHANGED error
    ELSE /\ Raise(type, at)
         /\ UNCHANGED <<processed, pidx>>

\* create_directories(project_id, download_type), called before the try block.
create_directories ==
    /\ pc = "project"
    /\ pidx <= Len(project_list)
    /\ \/ pc' = "manifest" /\ UNCHANGED error
       \/ Raise("OSError", "create_directories")
    /\ dl_log' = <<>>
    /\ cur_files' = <<>>
    /\ cur_patient_slides' = EmptyGroup
    /\ UNCHANGED <<script, gvars, dvars, arg_download_type, arg_projects,
                   arg_patient_ids, net, project_list, patient_id_list, pidx,
                   kidx, fidx, slides_dir, processed, project_summaries, aggregate>>

\* manifest = get_manifest(project_id); files = manifest["data"]["hits"];
\* patient_slides = group_by_patient(files, download_type or "both", patient_id_list)
GetManifestAndGroup ==
    /\ pc = "manifest"
    /\ net' = net \cup {"files"}
    /\ \/ /\ ProjectFails("RequestException", "get_manifest")
          /\ UNCHANGED <<cur_files, cur_patient_slides, kidx>>
       \/ \E files \in Manifests(project_list[pidx]) :
             LET ps == Group(script, files,
                             IF arg_download_type # "none" THEN arg_download_type
                             ELSE "both",
                             patient_id_list)
             IN  /\ cur_files' = files
                 /\ IF ps.raised # ""
                    THEN /\ ProjectFails(ps.raised, "group_by_patient")
                         /\ UNCHANGED <<cur_patient_slides, kidx>>
                    ELSE /\ cur_patient_slides' = ps
                         /\ kidx' = 1
                         /\ pc' = "patient"
                         /\ UNCHANGED <<error, processed, pidx>>
    /\ UNCHANGED <<script, gvars, dvars, arg_download_type, arg_projects,
                   arg_patient_ids, project_list, patient_id_list,
                   fidx, slides_dir, dl_log, project_summaries, aggregate>>

\* save_metadata(project_id, identifier, slides, project_metadata_dir), then the
\* file loop if download_type != "none".
save_metadata ==
    /\ pc = "patient"
    /\ kidx <= Len(cur_patient_slides.keys)
    /\ \/ /\ ProjectFails("OSError", "save_metadata")
          /\ UNCHANGED <<kidx, fidx>>
       \/ /\ IF arg_download_type # "none"
             THEN pc' = "file" /\ fidx' = 1 /\ UNCHANGED kidx
             ELSE pc' = "patient" /\ kidx' = kidx + 1 /\ UNCHANGED fidx
          /\ UNCHANGED <<error, processed, pidx>>
    /\ UNCHANGED <<cur_files, script, gvars, dvars, arg_download_type, arg_projects,
                   arg_patient_ids, net, project_list, patient_id_list,
                   cur_patient_slides, slides_dir, dl_log, project_summaries,
                   aggregate>>

\* The second slide-type test, in the file loop of download_tcga_slides.
FileLoopSkips(dtype, file) ==
    \/ dtype = "tissue" /\ Get(file, "experimental_strategy", None) # "Tissue Slide"
    \/ dtype = "diagnostic"
          /\ Get(file, "experimental_strategy", None) # "Diagnostic Slide"

\* patient_dir = os.path.join(project_slides_dir, identifier), the first
\* statement of download_file: the key None is no path component, and join
\* raises TypeError before any directory, request or file.
JoinRaises(identifier) == identifier = None

\* One turn of "for file in slides": the slide-type test, then download_file;
\* by_type catches its exception, logs it and goes on with the next file.
DownloadOne ==
    /\ pc = "file"
    /\ LET identifier == cur_patient_slides.keys[kidx]
           slides == cur_patient_slides.slides[identifier]
           file == slides[fidx]
           path == <<project_list[pidx], identifier, file["file_name"]>>
           goOn == IF fidx < Len(slides)
                   THEN pc' = "file" /\ fidx' = fidx + 1 /\ UNCHANGED kidx
                   ELSE pc' = "patient" /\ kidx' = kidx + 1 /\ UNCHANGED fidx
       IN  IF FileLoopSkips(arg_download_type, file)
           THEN goOn /\ UNCHANGED <<error, slides_dir, dl_log, net>>
           ELSE \E envs \in RunEnvs :
                   LET call == IF JoinRaises(identifier)
                               THEN [outcome |-> "TypeError",
                                     disk |-> DiskGet(slides_dir, path),
                                     trace |-> <<>>]
                               ELSE Download(script, DiskGet(slides_dir, path),
                                             file["md5sum"], envs)
                       requested == \E n \in 1..Len(call.trace) : call.trace[n].requested
                   IN  /\ slides_dir' = DiskPut(slides_dir, path, call.disk)
                       /\ net' = IF requested THEN net \cup {"data"} ELSE net
                       /\ dl_log' = Append(dl_log, [file_id |-> file["file_id"],
                                                    outcome |-> call.outcome])
                       /\ IF Succeeded(call) \/ script = "by_type"
                          THEN goOn /\ UNCHANGED error
                          ELSE Raise(call.outcome, "download_file")
                                   /\ UNCHANGED <<kidx, fidx>>
    /\ UNCHANGED <<cur_files, script, gvars, dvars, arg_download_type, arg_projects,
                   arg_patient_ids, project_list, patient_id_list, pidx,
                   cur_patient_slides, processed, project_summaries, aggregate>>

\* The PatientGroup without the records that log has no successful
\* download_file call for.
DownloadedOnly(ps, log) ==
    LET done == {log[n].file_id : n \in {m \in 1..Len(log) :
                                            log[m].outcome \in {"skipped", "downloaded"}}}
    IN  [ps EXCEPT !.slides =
            [k \in DOMAIN ps.slides |->
                SelectSeq(ps.slides[k], LAMBDA f : f["file_id"] \in done)]]

\* A variant of SummariseProject that summarises the downloaded slides only.
SummariseDownloadedOnly ==
    /\ pc = "patient"
    /\ kidx > Len(cur_patient_slides.keys)
    /\ LET project_summary ==
               generate_project_summary_csv(project_list[pidx],
                     DownloadedOnly(cur_patient_slides, dl_log))
       IN  \/ /\ ProjectFails("OSError", "generate_project_summary_csv")
              /\ UNCHANGED project_summaries
           \/ IF project_summary.raised # ""
              THEN /\ ProjectFails(project_summary.raised, "generate_project_summary_csv")
                   /\ UNCHANGED project_summaries
              ELSE /\ project_summaries' = Append(project_summaries, project_summary)
                   /\ processed' = Append(processed, [project |-> project_list[pidx],
                                                      status |-> "summarised", at |-> ""])
                   /\ pidx' = pidx + 1
                   /\ pc' = "project"
                   /\ UNCHANGED error
    /\ UNCHANGED <<cur_files, script, gvars, dvars, arg_download_type, arg_projects,
                   arg_patient_ids, net, project_list, patient_id_list,
                   cur_patient_slides, kidx, fidx, slides_dir, dl_log, aggregate>>

\* project_summary = generate_project_summary_csv(project_id, patient_slides);
\* project_summaries.append(project_summary)
SummariseProject ==
    /\ pc = "patient"
    /\ kidx > Len(cur_patient_slides.keys)
    /\ LET project_summary ==
               generate_project_summary_csv(project_list[pidx], cur_patient_slides)
       IN  \/ /\ ProjectFails("OSError", "generate_project_summary_csv")
              /\ UNCHANGED project_summaries
           \/ IF project_summary.raised # ""
              THEN /\ ProjectFails(project_summary.raised, "generate_project_summary_csv")
                   /\ UNCHANGED project_summaries
              ELSE /\ project_summaries' = Append(project_summaries, project_summary)
                   /\ processed' = Append(processed, [project |-> project_list[pidx],
                                                      status |-> "summarised", at |-> ""])
                   /\ pidx' = pidx + 1
                   /\ pc' = "project"
                   /\ UNCHANGED error
    /\ UNCHANGED <<cur_files, script, gvars, dvars, arg_download_type, arg_projects,
                   arg_patient_ids, net, project_list, patient_id_list,
                   cur_patient_slides, kidx, fidx, slides_dir, dl_log, aggregate>>

\* The characters of a project id after "TCGA-".
Letters(project_id) ==
    CASE project_id = "TCGA-BRCA" -> <<"B", "R", "C", "A">>
      [] project_id = "TCGA-LUAD" -> <<"L", "U", "A", "D">>
      [] project_id = "TCGA-LUSC" -> <<"L", "U", "S", "C">>
      [] project_id = "TCGA-OV"   -> <<"O", "V">>
      [] project_id = "TCGA-GBM"  -> <<"G", "B", "M">>
      [] project_id = "TCGA-UCEC" -> <<"U", "C", "E", "C">>
      [] project_id = "TCGA-COAD" -> <<"C", "O", "A", "D">>
      [] project_id = "TCGA-PRAD" -> <<"P", "R", "A", "D">>
      [] project_id = "TCGA-THCA" -> <<"T", "H", "C", "A">>
      [] project_id = "TCGA-HNSC" -> <<"H", "N", "S", "C">>
      [] project_id = "TCGA-LIHC" -> <<"L", "I", "H", "C">>

\* The first n characters of a project id.
RECURSIVE Joined(_, _)
Joined(chars, n) == IF n = 0 THEN "" ELSE Joined(chars, n - 1) \o chars[n]

\* The first column of a data row that the file holds only in part: any
\* non-empty prefix of the project id, the whole id included.
CutFirstColumn(project_id) ==
    LET chars == <<"T", "C", "G", "A", "-">> \o Letters(project_id)
    IN  {Joined(chars, n) : n \in 1..Len(chars)}

\* What all_tcga_projects_summary.csv may hold of rows when the writing failed:
\* nothing (the open failed), or the first k rows, followed by a part of the
\* next one when the file was cut inside it.
PartialRows(rows) ==
    UNION {{SubSeq(rows, 1, k)}
              \cup (IF k < Len(rows)
                    THEN {Append(SubSeq(rows, 1, k), c) : c \in CutFirstColumn(rows[k + 1])}
                    ELSE {})
           : k \in 0..Len(rows)}

\* generate_all_projects_summary_csv(project_summaries), after the project loop.
\* aggregate.written counts the calls that returned.
generate_all_projects_summary_csv ==
    /\ pc = "project"
    /\ pidx > Len(project_list)
    /\ LET rows == [i \in 1..Len(project_summaries) |-> project_summaries[i].project]
       IN  \/ /\ aggregate' = [written |-> aggregate.written + 1, rows |-> rows]
              /\ pc' = "done"
              /\ UNCHANGED error
           \/ /\ Raise("OSError", "generate_all_projects_summary_csv")
              /\ \E part \in PartialRows(rows) :
                    aggregate' = [written |-> aggregate.written, rows |-> part]
    /\ UNCHANGED <<cur_files, script, gvars, dvars, arg_download_type, arg_projects,
                   arg_patient_ids, net, project_list, patient_id_list, pidx,
                   cur_patient_slides, kidx, fidx, slides_dir, dl_log, processed,
                   project_summaries>>

Next ==
    \/ ValidateType
    \/ get_all_projects
    \/ ResolveProjects
    \/ ResolvePatientIds
    \/ create_directories
    \/ GetManifestAndGroup
    \/ save_metadata
    \/ DownloadOne
    \/ SummariseProject
    \/ generate_all_projects_summary_csv

Spec == Init /\ [][Next]_vars

(* ------------------- claims about group_by_patient -------------------- *)
\* The patient identifier of a record as section 4.2 of the specification
\* resolves it: case identifier, else first submitter identifier, else "Unknown".
ResolvedId(file) ==
    IF "case_id" \in DOMAIN file /\ Truthy(file["case_id"]) THEN file["case_id"]
    ELSE IF "cases" \in DOMAIN file /\ Len(file["cases"]) > 0
            /\ "submitter_id" \in DOMAIN file["cases"][1]
         THEN file["cases"][1]["submitter_id"]
         ELSE "Unknown"

StrategyOf(file) == Get(file, "experimental_strategy", None)

TypeAdmits(type, file) ==
    \/ type = "both"
    \/ type = "tissue" /\ StrategyOf(file) = "Tissue Slide"
    \/ type = "diagnostic" /\ StrategyOf(file) = "Diagnostic Slide"

\* Admission as section 4.2 states it.
Admitted(file, type, pids) ==
    /\ TypeAdmits(type, file)
    /\ pids.isNone \/ InList(ResolvedId(file), pids)

\* The places <<key, position>> at which a record sits in a PatientGroup.
Places(ps, file) ==
    {kj \in UNION {{<<k, j>> : j \in 1..Len(ps.slides[k])} : k \in DOMAIN ps.slides} :
        ps.slides[kj[1]][kj[2]] = file}

GroupReturned == g_pc # "input" /\ g_out.raised = ""

\* C1 (as claimed): whenever group_by_patient returns, its result is a
\* partition of the admitted records: every admitted input record sits at
\* exactly one place of exactly one patient group, under its resolved patient
\* identifier; every record of the output is an admitted input record that
\* sits at one place only; and the keys are exactly the non-empty groups,
\* each listed once.
C1_GroupingIsPartition ==
    GroupReturned =>
        /\ \A i \in 1..Len(g_files) :
              Admitted(g_files[i], g_type, g_pids) =>
                  /\ Cardinality(Places(g_out, g_files[i])) = 1
                  /\ \A kj \in Places(g_out, g_files[i]) : kj[1] = ResolvedId(g_files[i])
        /\ \A k \in DOMAIN g_out.slides : \A j \in 1..Len(g_out.slides[k]) :
              /\ g_out.slides[k][j] \in Range(g_files)
              /\ Admitted(g_out.slides[k][j], g_type, g_pids)
              /\ Cardinality(Places(g_out, g_out.slides[k][j])) = 1
        /\ Range(g_out.keys) = DOMAIN g_out.slides
        /\ Cardinality(Range(g_out.keys)) = Len(g_out.keys)

\* C10: with filter "tissue" (resp. "diagnostic") every record of every
\* returned group is a Tissue Slide (resp. Diagnostic Slide) and the project
\* summary counts no slide of the other type; with filter "both" no record
\* is left out for its experimental strategy, absent and other ones included.
C10_SlideTypeFilter ==
    GroupReturned =>
        /\ g_type = "tissue" =>
              /\ \A k \in DOMAIN g_out.slides : \A j \in 1..Len(g_out.slides[k]) :
                    StrategyOf(g_out.slides[k][j]) = "Tissue Slide"
              /\ g_pc = "summarised" =>
                    /\ g_sum.diagnostic_slides = 0
                    /\ g_sum.tissue_slides = g_sum.total_slides
        /\ g_type = "diagnostic" =>
              /\ \A k \in DOMAIN g_out.slides : \A j \in 1..Len(g_out.slides[k]) :
                    StrategyOf(g_out.slides[k][j]) = "Diagnostic Slide"
              /\ g_pc = "summarised" =>
                    /\ g_sum.tissue_slides = 0
                    /\ g_sum.diagnostic_slides = g_sum.total_slides
        /\ g_type = "both" =>
              \A i \in 1..Len(g_files) :
                  (g_pids.isNone \/ InList(ResolvedId(g_files[i]), g_pids))
                      => Places(g_out, g_files[i]) # {}

\* C10 witness: filter "tissue", one Tissue Slide and one Diagnostic Slide of
\* the same patient in the input, and a summary of tissue_slides = 1,
\* diagnostic_slides = 0.
C10_Witness ==
    /\ g_pc = "summarised"
    /\ g_type = "tissue"
    /\ Len(g_files) = 2
    /\ StrategyOf(g_files[1]) = "Tissue Slide"
    /\ StrategyOf(g_files[2]) = "Diagnostic Slide"
    /\ Get(g_files[1], "case_id", None) = "P1"
    /\ Get(g_files[2], "case_id", None) = "P1"
    /\ g_sum.tissue_slides = 1
    /\ g_sum.diagnostic_slides = 0
    /\ g_out.keys = <<"P1">>

(* --------------------- claims about download_file --------------------- *)
\* The file has to be fetched: it is absent or its checksum differs.
NeedsDownload(content) == content = Absent \/ Md5(content) # Md5sum

Requests(call) == Cardinality({n \in 1..Len(call.trace) : call.trace[n].requested})

Outcomes(call) == [n \in 1..Len(call.trace) |-> call.trace[n].outcome]

\* C2: an execution of download_file that gets past directory creation and the
\* reading of an existing file calls requests.get if and only if the file is
\* absent or its checksum differs from md5sum, and none calls it before that; a call on a present file with
\* matching checksum makes no request and leaves the file as it was; a call on
\* a present file with another checksum makes one request per execution of
\* its single retry sequence (at least 1, at most 3) and, when it ends
\* "downloaded", has overwritten the path with the body received.
C2_RequestIffAbsentOrMismatch ==
    d_calls > 0 =>
        LET t == d_last.trace
            first == t[1].before
        IN  /\ \A n \in 1..Len(t) :
                  /\ t[n].stage \notin {"mkdir", "read"} =>
                        (t[n].requested <=> NeedsDownload(t[n].before))
                  /\ t[n].stage \in {"mkdir", "read"} => ~t[n].requested
            /\ ~NeedsDownload(first) =>
                  /\ Requests(d_last) = 0
                  /\ d_disk = first
                  /\ Len(t) = 1
                  /\ d_last.outcome \in {"skipped", "OSError"}
            /\ (first # Absent /\ NeedsDownload(first)
                  /\ t[1].stage \notin {"mkdir", "read"}) =>
                  /\ Requests(d_last) >= 1
                  /\ Requests(d_last) <= MaxAttempts
                  /\ Requests(d_last) \in {Len(t), Len(t) - 1}
                  /\ d_last.outcome = "downloaded" =>
                        d_disk = Served(t[Len(t)].env)

\* C2 witness: download_file is run again on a file that a first call, finding
\* another checksum, has downloaded anew: the second call is skipped.
C2_Witness ==
    /\ d_calls = 2
    /\ d_prev.before = CorruptBytes
    /\ d_prev.outcome = "downloaded"
    /\ d_prev.executions = 1
    /\ d_last.outcome = "skipped"
    /\ Requests(d_last) = 0
    /\ d_disk = GoodBytes

\* C3: a download_file call executes its body at most 3 times; every execution
\* but the last ended in a RequestException; an OSError (mkdir, read, open, write)
\* ends the call at once and reaches the caller, after exactly one execution
\* when the first one raised it; in by_type a RequestException is followed by
\* another execution unless it was the third, and then the call raises
\* RetryError; two RequestExceptions followed by a success are 3 executions and
\* a successful call.
C3_RetryOnlyNetworkAtMostThree ==
    d_calls > 0 =>
        LET t == d_last.trace
            o == Outcomes(d_last)
        IN  /\ Len(t) >= 1
            /\ Len(t) <= MaxAttempts
            /\ \A n \in 1..(Len(t) - 1) : o[n] = "RequestException"
            /\ \A n \in 1..Len(t) :
                  o[n] = "OSError" => n = Len(t) /\ d_last.outcome = "OSError"
            /\ o[1] = "OSError" => Len(t) = 1
            /\ (script = "by_type" /\ o[Len(t)] = "RequestException") =>
                  Len(t) = MaxAttempts /\ d_last.outcome = "RetryError"
            /\ o = <<"RequestException", "RequestException", "downloaded">> =>
                  Succeeded(d_last)

\* C3 witness: two transient network failures, then a success at the third
\* execution, the file present and correct.
C3_Witness ==
    /\ d_calls = 1
    /\ script = "by_type"
    /\ Outcomes(d_last) = <<"RequestException", "RequestException", "downloaded">>
    /\ d_last.trace[1].before = Absent
    /\ Succeeded(d_last)
    /\ d_disk = GoodBytes

\* C4 (as claimed): whenever download_file returns, skipped or downloaded,
\* the file exists and its checksum equals md5sum.
C4_SuccessMeansPresentAndCorrect ==
    (d_calls > 0 /\ Succeeded(d_last)) =>
        d_disk # Absent /\ Md5(d_disk) = Md5sum

(* ------------------ claims about download_tcga_slides ----------------- *)
ArgumentStages == {"download_type", "get_all_projects", "projects", "patient_ids"}

\* The run got past the validation of its arguments.
Validated ==
    \/ pc \in {"project", "manifest", "patient", "file", "done"}
    \/ pc = "raised" /\ error.at \notin ArgumentStages

\* The files of the current PatientGroup the file loop hands to download_file.
Wanted(ps) ==
    {f \in UNION {Range(ps.slides[k]) : k \in DOMAIN ps.slides} :
        ~FileLoopSkips(arg_download_type, f)}

Called == {dl_log[n].file_id : n \in 1..Len(dl_log)}

\* C5 (as claimed): a failed download_file call ends neither the project nor
\* the run: the run is never ended by an exception of download_file, and a
\* project that came to its summary with downloading requested has had one
\* download_file call for each admitted file of each of its patients.
C5_FailedDownloadAbortsOnlyThatFile ==
    /\ ~(pc = "raised" /\ error.at = "download_file")
    /\ (pc = "project" /\ Len(processed) > 0 /\ arg_download_type # "none"
          /\ processed[Len(processed)].status = "summarised") =>
            /\ Called = {f["file_id"] : f \in Wanted(cur_patient_slides)}
            /\ Len(dl_log) = Cardinality(Wanted(cur_patient_slides))

ProjectStages == {"create_directories", "get_manifest", "group_by_patient",
                  "save_metadata", "generate_project_summary_csv"}

\* C6 (as claimed): in a run with valid arguments a failure while processing one
\* project (directory creation, manifest fetch, grouping, metadata persistence,
\* summary writing) never ends the run: the later projects are still processed.
C6_ProjectFailureAbortsOnlyThatProject ==
    ~(pc = "raised" /\ error.at \in ProjectStages)

\* The projects that produced a ProjectSummary, in processing order.
RECURSIVE SummarisedProjects(_)
SummarisedProjects(done) ==
    IF done = <<>> THEN <<>>
    ELSE IF Head(done).status = "summarised"
         THEN <<Head(done).project>> \o SummarisedProjects(Tail(done))
         ELSE SummarisedProjects(Tail(done))

\* C7 (as claimed): every run of by_type that passed argument validation and
\* has ended wrote the aggregate summary exactly once, after all projects of
\* the list were gone through, with one row per project that produced a
\* ProjectSummary, in processing order, and no other row.
C7_AggregateAlwaysWritten ==
    /\ aggregate.written <= 1
    /\ (script = "by_type" /\ Validated /\ pc \in {"done", "raised"}) =>
          /\ aggregate.written = 1
          /\ Len(processed) = Len(project_list)
          /\ aggregate.rows = SummarisedProjects(processed)

\* C8 (as claimed): a run that ends with the ValueError of an invalid argument
\* (slide type, project id, patient-id file without the column) has requested
\* no GDC endpoint: neither /projects nor /files nor /data.
C8_InvalidArgumentBeforeNetwork ==
    (pc = "raised" /\ error.type = "ValueError"
        /\ error.at \in {"download_type", "projects", "patient_ids"}) => net = {}

\* C9 (as claimed): whenever a patient allow-list was given to group_by_patient,
\* an allow-list without entries included, every key of the PatientGroup it
\* returned is in the allow-list.
C9_KeysWithinAllowList ==
    (pc \in {"patient", "file"} /\ ~patient_id_list.isNone) =>
        \A k \in Range(cur_patient_slides.keys) : InList(k, patient_id_list)

(* ------------- claims about the patient identifier (C11) -------------- *)
\* C11: without an allow-list, every call of group_by_patient returns without
\* error, and every record the slide-type filter lets through sits under the
\* identifier section 4.2 resolves for it: the case identifier when present,
\* else the first submitter identifier when present, else "Unknown" -- a
\* record with no associated cases at all included.
C11_ResolvedAndGroupedWithoutError ==
    (g_pc # "input" /\ g_pids.isNone) =>
        /\ g_out.raised = ""
        /\ \A i \in 1..Len(g_files) :
              TypeAdmits(g_type, g_files[i]) =>
                  \E kj \in Places(g_out, g_files[i]) : kj[1] = ResolvedId(g_files[i])

(* ------------ claims about the project summary (C12) ------------------ *)
\* Every place <<key, position>> of a PatientGroup.
AllPlaces(ps) ==
    UNION {{<<k, j>> : j \in 1..Len(ps.slides[k])} : k \in DOMAIN ps.slides}

\* The places holding a record that is neither a tissue nor a diagnostic slide.
OtherPlaces(ps) ==
    {kj \in AllPlaces(ps) :
        StrategyOf(ps.slides[kj[1]][kj[2]]) \notin {"Tissue Slide", "Diagnostic Slide"}}

\* The input without its last record, grouped with the same arguments.
GroupBeforeLast ==
    Group(script, SubSeq(g_files, 1, Len(g_files) - 1), g_type, g_pids)

\* The summary of that group, when the grouping and the summary both returned.
SummaryBeforeLast == generate_project_summary_csv("TCGA-A", GroupBeforeLast)

HasSummaryBeforeLast ==
    /\ Len(g_files) > 0
    /\ GroupBeforeLast.raised = ""
    /\ SummaryBeforeLast.raised = ""

\* C12: a summary that generate_project_summary_csv returns counts as
\* total_slides the records over all patients, and total_slides = tissue_slides + diagnostic_slides + the
\* number of records of neither strategy; and the total size, in bytes, in
\* megabytes and as written with two decimals, is never below that of the
\* group obtained before the last record was added.
C12_SummaryCountsAddUp ==
    g_pc = "summarised" =>
        /\ g_sum.total_slides = Cardinality(AllPlaces(g_out))
        /\ g_sum.total_slides = g_sum.tissue_slides + g_sum.diagnostic_slides
                                   + Cardinality(OtherPlaces(g_out))
        /\ HasSummaryBeforeLast =>
              LET before == SummaryBeforeLast
              IN  /\ before.total_size_bytes <= g_sum.total_size_bytes
                  /\ before.total_size_mb.den = g_sum.total_size_mb.den
                  /\ before.total_size_mb.num <= g_sum.total_size_mb.num
                  /\ before.total_size_2f <= g_sum.total_size_2f
                  /\ before.total_slides <= g_sum.total_slides

\* C12 witness: a summary over a tissue slide, a diagnostic slide and a record
\* of neither strategy, whose last record raised the size written.
C12_Witness ==
    /\ g_pc = "summarised"
    /\ g_sum.total_slides = 3
    /\ g_sum.tissue_slides = 1
    /\ g_sum.diagnostic_slides = 1
    /\ Cardinality(OtherPlaces(g_out)) = 1
    /\ HasSummaryBeforeLast
    /\ SummaryBeforeLast.total_size_2f < g_sum.total_size_2f

(* ------- claims about the summary and the download outcomes (C13) ------ *)
\* The project loop has just appended the ProjectSummary of a project.
JustSummarised ==
    /\ pc = "project"
    /\ Len(processed) > 0
    /\ processed[Len(processed)].status = "summarised"

\* The filter a run groups with: downloading disabled groups like "both".
GroupingFilter == IF arg_download_type \in {"none", "both"} THEN "both"
                  ELSE arg_download_type

\* C13: the ProjectSummary a project gets is the summary of its manifest
\* grouped under the run's filter ("none" like "both") and allow-list,
\* whatever the download_file calls of the project met: it counts every
\* record of the PatientGroup, those whose download failed included, and in
\* the by_type script no project fails for a download.
C13_SummaryIgnoresDownloadOutcomes ==
    /\ script = "by_type" =>
          \A n \in 1..Len(processed) : processed[n].at # "download_file"
    /\ JustSummarised =>
          LET summary == project_summaries[Len(project_summaries)]
              project == processed[Len(processed)].project
          IN  /\ summary = generate_project_summary_csv(project,
                               Group(script, cur_files, GroupingFilter, patient_id_list))
              /\ summary.total_slides = Cardinality(AllPlaces(cur_patient_slides))
              /\ \A n \in 1..Len(dl_log) :
                    \E kj \in AllPlaces(cur_patient_slides) :
                        cur_patient_slides.slides[kj[1]][kj[2]]["file_id"]
                            = dl_log[n].file_id

\* C13 witness: a project summarised with three slides after one download
\* failed for good, one succeeded and one was skipped.
C13_Witness ==
    /\ JustSummarised
    /\ project_summaries[Len(project_summaries)].total_slides = 3
    /\ Len(dl_log) = 3
    /\ {dl_log[n].outcome : n \in 1..Len(dl_log)} = {"RetryError", "downloaded", "skipped"}
====
